---- MODULE Spec2Model ----
(***************************************************************************)
(* Model of the custom Cloud Run scaler (Poc_gcp_scaler).                  *)
(*                                                                         *)
(* The process (index.ts) loads a configuration, starts an HTTP server     *)
(* with POST /scale, runs runScalingLoop() once at startup and then every  *)
(* 15 s from setInterval, and handles SIGTERM.  Every entry point calls    *)
(* scale(config) (scaler.ts), an async function with three suspension      *)
(* points: rabbitmq.getQueueDepth, cloudrun.getInstanceCount and           *)
(* cloudrun.updateInstanceCount.  Each invocation of scale() that has      *)
(* started and not yet settled occupies one slot of `cycle`.  The model    *)
(* keeps one slot per entry point: the invocation made by the timer loop   *)
(* and the invocation made by the POST /scale handler.  An entry point     *)
(* whose previous invocation is still in flight is not modelled as firing  *)
(* again.                                                                  *)
(*                                                                         *)
(* Time is abstracted: a network call may take any time (getQueueDepth up  *)
(* to its 10 s abort, the Cloud Run calls have no timeout), so a timer     *)
(* tick, a request, the signal and the 5 s grace timer may interleave with *)
(* the steps of a cycle in any order.                                      *)
(***************************************************************************)
EXTENDS Integers, Sequences, FiniteSets, TLC

-----------------------------------------------------------------------------
(* Bounds of the model *)

MaxDepth == 2
MaxInst == 2
MaxPerInstance == 1

PolicyMaxDepth == 21
PolicyMaxInst == 5
PolicyMaxPerInstance == 3

\* the entry points that call scale(): runScalingLoop and app.post("/scale")
Slots == {"timer", "http"}

\* value of a local that has not been assigned yet / of an absent JSON field
Unset == -1

-----------------------------------------------------------------------------
(* State *)

VARIABLES
    env,                  \* process.env, as read by loadConfig
    boot,                 \* loadConfig: "pending", "ok" (returned) or "threw"
    config,               \* const config = loadConfig()
    messages,             \* `messages` field of the RabbitMQ queue resource
    manualInstanceCount,  \* scaling.manualInstanceCount of the Cloud Run service
    started,              \* the module body of index.ts has run to its end
    scalingInterval,      \* let scalingInterval: "set" or "null"
    isShuttingDown,       \* let isShuttingDown
    exited,               \* process.exit(0) has been called
    cycle,                \* the invocations of scale(): one record per slot
    sampleOrder           \* history: the order in which the samples held by
                          \* invocations in flight, and the one behind the
                          \* last write applied, were taken (oldest first)

vars == <<env, boot, config, messages, manualInstanceCount, started, scalingInterval,
          isShuttingDown, exited, cycle, sampleOrder>>

\* POLLING_INTERVAL_MS ?? "2000"
DefaultPollingIntervalMs == 2000

\* configurations accepted by the validation of loadConfig
ValidConfigs(maxPer, maxInst) ==
    { cfg \in [targetPerInstance : 1..maxPer,
               minInstances : 0..maxInst,
               maxInstances : 0..maxInst,
               dryRun : BOOLEAN,
               pollingIntervalMs : {DefaultPollingIntervalMs}] :
        /\ ~(cfg.targetPerInstance <= 0)
        /\ ~(cfg.minInstances < 0)
        /\ ~(cfg.maxInstances < cfg.minInstances) }

-----------------------------------------------------------------------------
(* config.ts: loadConfig.  A string is a sequence of one-character strings; *)
(* an environment variable is a record saying whether it is set, and its    *)
(* text.                                                                    *)

\* the result of Number.parseInt on a text with no leading digits
NaN == -1000000

Absent == [set |-> FALSE, text |-> <<>>]
Text(t) == [set |-> TRUE, text |-> t]

DigitChars == {"0", "1", "2", "3", "4", "5", "6", "7", "8", "9"}

DigitValue(ch) ==
    CASE ch = "0" -> 0 [] ch = "1" -> 1 [] ch = "2" -> 2 [] ch = "3" -> 3
      [] ch = "4" -> 4 [] ch = "5" -> 5 [] ch = "6" -> 6 [] ch = "7" -> 7
      [] ch = "8" -> 8 [] ch = "9" -> 9

DigitChar(n) ==
    CASE n = 0 -> "0" [] n = 1 -> "1" [] n = 2 -> "2" [] n = 3 -> "3"
      [] n = 4 -> "4" [] n = 5 -> "5" [] n = 6 -> "6" [] n = 7 -> "7"
      [] n = 8 -> "8" [] n = 9 -> "9"

\* String(n) for an integer n >= 0
RECURSIVE ToText(_)
ToText(n) ==
    IF n < 10 THEN <<DigitChar(n)>>
    ELSE Append(ToText(n \div 10), DigitChar(n % 10))

\* parseInt skips leading white space
RECURSIVE SkipSpace(_)
SkipSpace(t) ==
    IF t # <<>> /\ Head(t) = " " THEN SkipSpace(Tail(t)) ELSE t

\* the value of the longest prefix of digits of t, continuing from acc
RECURSIVE DigitsValue(_, _)
DigitsValue(t, acc) ==
    IF t # <<>> /\ Head(t) \in DigitChars
    THEN DigitsValue(Tail(t), acc * 10 + DigitValue(Head(t)))
    ELSE acc

\* Number.parseInt(text, 10): white space, an optional sign, then digits up
\* to the first other character; NaN when there is no digit
ParseInt(text) ==
    LET t == SkipSpace(text)
        signed == t # <<>> /\ Head(t) \in {"-", "+"}
        body == IF signed THEN Tail(t) ELSE t
        magnitude == DigitsValue(body, 0)
    IN IF body = <<>> \/ Head(body) \notin DigitChars THEN NaN
       ELSE IF signed /\ Head(t) = "-" THEN 0 - magnitude
       ELSE magnitude

\* the comparisons of JavaScript: any comparison with NaN is false
JsLess(a, b) == a # NaN /\ b # NaN /\ a < b
JsLessEq(a, b) == a # NaN /\ b # NaN /\ a <= b
JsGreater(a, b) == a # NaN /\ b # NaN /\ a > b

\* process.env[name] ?? fallback
OrDefault(v, fallback) == IF v.set THEN v.text ELSE fallback

\* required(name): throws when the variable is unset or empty
Missing(v) == ~v.set \/ v.text = <<>>

\* the config object built by loadConfig before validation
ParsedConfig(e) ==
    [targetPerInstance |-> ParseInt(OrDefault(e.TARGET_PER_INSTANCE, <<"3">>)),
     minInstances |-> ParseInt(OrDefault(e.MIN_INSTANCES, <<"0">>)),
     maxInstances |-> ParseInt(OrDefault(e.MAX_INSTANCES, <<"5">>)),
     dryRun |-> (e.DRY_RUN = Text(<<"t", "r", "u", "e">>)),
     pollingIntervalMs |->
         ParseInt(OrDefault(e.POLLING_INTERVAL_MS,
                            ToText(DefaultPollingIntervalMs)))]

\* "Validate configuration": some check of loadConfig throws
Rejected(cfg) ==
    \/ JsLessEq(cfg.targetPerInstance, 0)
    \/ JsLess(cfg.minInstances, 0)
    \/ JsLess(cfg.maxInstances, cfg.minInstances)
    \/ JsLess(cfg.pollingIntervalMs, 1000)
    \/ JsGreater(cfg.pollingIntervalMs, 60000)

\* loadConfig(): whether it throws, and the object it returns otherwise
LoadConfig(e) ==
    [threw |-> \/ Missing(e.RABBITMQ_URL)
               \/ Missing(e.PROJECT_ID)
               \/ Missing(e.REGION)
               \/ Rejected(ParsedConfig(e)),
     config |-> ParsedConfig(e)]

\* an environment from which loadConfig builds cfg
EnvOf(cfg) ==
    [RABBITMQ_URL |-> Text(<<"a">>), PROJECT_ID |-> Text(<<"p">>),
     REGION |-> Text(<<"r">>),
     TARGET_PER_INSTANCE |-> Text(ToText(cfg.targetPerInstance)),
     MIN_INSTANCES |-> Text(ToText(cfg.minInstances)),
     MAX_INSTANCES |-> Text(ToText(cfg.maxInstances)),
     DRY_RUN |-> IF cfg.dryRun THEN Text(<<"t", "r", "u", "e">>) ELSE Absent,
     POLLING_INTERVAL_MS |-> Absent]

\* the value of `config` before loadConfig has returned
NoConfig ==
    [targetPerInstance |-> NaN, minInstances |-> NaN, maxInstances |-> NaN,
     dryRun |-> FALSE, pollingIntervalMs |-> NaN]

-----------------------------------------------------------------------------

InFlightPcs == {"sampling", "reading", "updating"}

InFlight(c) == cycle[c].pc \in InFlightPcs

Log(level, msg) == [level |-> level, msg |-> msg]

\* what the POST /scale handler has sent back: nothing yet
NoResponse ==
    [status |-> 0, success |-> FALSE, queueDepth |-> Unset,
     currentInstances |-> Unset, targetInstances |-> Unset, scaled |-> FALSE,
     error |-> "none"]

\* queueDepth, targetInstances, currentInstances, reason: the locals of scale();
\* scaled: the field of the ScaleResult returned; calls: the external calls
\* issued so far, in order; response: the HTTP response of the POST handler
IdleCycle ==
    [pc |-> "idle", queueDepth |-> Unset,
     targetInstances |-> Unset, currentInstances |-> Unset,
     updateCalls |-> 0, failed |-> "none", result |-> "none",
     events |-> <<>>,
     calls |-> <<>>, reason |-> "none", scaled |-> FALSE,
     response |-> NoResponse]

-----------------------------------------------------------------------------
(* scaler.ts: the scaling policy and the reconciliation decision *)

Min(a, b) == IF a < b THEN a ELSE b
Max(a, b) == IF a > b THEN a ELSE b

\* Math.ceil(a / b) for integers a >= 0, b >= 1
Ceil(a, b) == IF a % b = 0 THEN a \div b ELSE (a \div b) + 1

\* the upper clamp (Math.min with maxInstances) left out
TargetNoUpperClamp(queueDepth, cfg) ==
    Max(Ceil(queueDepth, cfg.targetPerInstance), cfg.minInstances)

\* the lower clamp (Math.max with minInstances) left out
TargetNoLowerClamp(queueDepth, cfg) ==
    Min(Ceil(queueDepth, cfg.targetPerInstance), cfg.maxInstances)

\* Math.floor in place of Math.ceil
TargetFloor(queueDepth, cfg) ==
    Min(Max(queueDepth \div cfg.targetPerInstance, cfg.minInstances),
        cfg.maxInstances)

\* the remainder operator in place of the division
TargetModulo(queueDepth, cfg) ==
    Min(Max(queueDepth % cfg.targetPerInstance, cfg.minInstances),
        cfg.maxInstances)

TargetInstances(queueDepth, cfg) ==
    Min(Max(Ceil(queueDepth, cfg.targetPerInstance), cfg.minInstances),
        cfg.maxInstances)

\* config.dryRun not consulted
ReconcileIgnoringDryRun(targetInstances, currentInstances, dryRun) ==
    IF targetInstances # currentInstances THEN "update" ELSE "noop"

\* the comparison of target and current left out
ReconcileAlways(targetInstances, currentInstances, dryRun) ==
    IF dryRun THEN "dry_run" ELSE "update"

\* step 4 of scale(): which branch is taken
Reconcile(targetInstances, currentInstances, dryRun) ==
    IF targetInstances # currentInstances
    THEN IF dryRun THEN "dry_run" ELSE "update"
    ELSE "noop"

\* the comparison of the reason inverted
ReasonInverted(targetInstances, currentInstances) ==
    IF targetInstances < currentInstances THEN "scale_up" ELSE "scale_down"

Reason(targetInstances, currentInstances) ==
    IF targetInstances > currentInstances THEN "scale_up" ELSE "scale_down"

-----------------------------------------------------------------------------
(* index.ts: what the caller of scale() does when scale() settles *)

CallerStart(trigger) ==
    IF trigger = "timer"
    THEN <<Log("info", "Running scaling check")>>
    ELSE <<Log("info", "Scale request received")>>

CallerComplete(trigger) ==
    IF trigger = "timer"
    THEN <<Log("info", "Scaling check complete")>>
    ELSE <<Log("info", "Scaling complete")>>

CallerFailed == <<Log("error", "Scaling failed")>>

\* getQueueDepth and getInstanceCount issued together (as with Promise.all)
NewCycleParallel(trigger) ==
    [IdleCycle EXCEPT
        !.pc = "sampling",
        !.calls = <<"getQueueDepth", "getInstanceCount">>,
        !.events = CallerStart(trigger)
                   \o <<Log("debug", "Starting scale operation"),
                        Log("debug", "Fetching queue depth")>>]

\* scale() is entered and runs to its first await (the fetch of getQueueDepth)
NewCycle(trigger) ==
    [IdleCycle EXCEPT
        !.pc = "sampling",
        !.calls = <<"getQueueDepth">>,
        !.events = CallerStart(trigger)
                   \o <<Log("debug", "Starting scale operation"),
                        Log("debug", "Fetching queue depth")>>]

\* scaled: targetInstances !== currentInstances
Scaled(targetInstances, currentInstances) == targetInstances # currentInstances

\* c.json({ success: true, ... }) of the POST handler; the timer sends nothing
SuccessResponse(trigger, cyc) ==
    IF trigger = "http"
    THEN [status |-> 200, success |-> TRUE, queueDepth |-> cyc.queueDepth,
          currentInstances |-> cyc.currentInstances,
          targetInstances |-> cyc.targetInstances,
          scaled |-> Scaled(cyc.targetInstances, cyc.currentInstances),
          error |-> "none"]
    ELSE NoResponse

\* the status argument of c.json left out: the default status is sent
FailureResponseDefaultStatus(trigger, cyc) ==
    IF trigger = "http"
    THEN [NoResponse EXCEPT !.status = 200, !.error = "message"]
    ELSE NoResponse

\* c.json({ success: false, error }, 500) of the POST handler
FailureResponse(trigger, cyc) ==
    IF trigger = "http"
    THEN [NoResponse EXCEPT !.status = 500, !.error = "message"]
    ELSE NoResponse

\* scaled reported as "an update was made" instead of "target differs"
ReturnedScaledIfUpdated(cyc, trigger, evs) ==
    [cyc EXCEPT !.pc = "done", !.result = "returned",
                !.scaled = cyc.updateCalls > 0,
                !.response = [SuccessResponse(trigger, cyc)
                                 EXCEPT !.scaled = cyc.updateCalls > 0 /\ trigger = "http"],
                !.events = cyc.events \o evs \o CallerComplete(trigger)]

\* scale() returned its ScaleResult to the caller
Returned(cyc, trigger, evs) ==
    [cyc EXCEPT !.pc = "done", !.result = "returned",
                !.scaled = Scaled(cyc.targetInstances, cyc.currentInstances),
                !.response = SuccessResponse(trigger, cyc),
                !.events = cyc.events \o evs \o CallerComplete(trigger)]

\* the caller's catch without its logger.error
ThrewWithoutCallerLog(cyc, trigger, step, evs) ==
    [cyc EXCEPT !.pc = "done", !.result = "threw", !.failed = step,
                !.response = FailureResponse(trigger, cyc),
                !.events = cyc.events \o evs]

\* scale() threw; the caller's catch logs the failure
Threw(cyc, trigger, step, evs) ==
    [cyc EXCEPT !.pc = "done", !.result = "threw", !.failed = step,
                !.response = FailureResponse(trigger, cyc),
                !.events = cyc.events \o evs \o CallerFailed]

\* the entry point has no invocation in flight
FreeSlot(c) == ~InFlight(c)

-----------------------------------------------------------------------------
(* Initial state: configuration loaded, nothing started yet *)

InitWith(configs, depths, counts) ==
    /\ config \in configs
    /\ env = EnvOf(config)
    /\ ~LoadConfig(env).threw
    /\ config = LoadConfig(env).config
    /\ boot = "ok"
    /\ messages \in depths
    /\ manualInstanceCount \in counts
    /\ started = FALSE
    /\ scalingInterval = "null"
    /\ isShuttingDown = FALSE
    /\ exited = FALSE
    /\ cycle = [c \in Slots |-> IdleCycle]
    /\ sampleOrder = <<>>

Init ==
    InitWith(ValidConfigs(MaxPerInstance, MaxInst),
             {Unset} \cup (0..MaxDepth),
             {Unset} \cup (0..MaxInst))

-----------------------------------------------------------------------------
(* index.ts: entry points *)

Running == started /\ ~exited

StartCycle(c, trigger) ==
    cycle' = [cycle EXCEPT ![c] = NewCycle(trigger)]

\* lines 120-123: runScalingLoop() immediately, then setInterval
Startup ==
    /\ boot = "ok"
    /\ ~started
    /\ started' = TRUE
    /\ scalingInterval' = "set"
    /\ StartCycle("timer", "timer")
    /\ UNCHANGED <<sampleOrder, env, boot, config, messages, manualInstanceCount, isShuttingDown, exited>>

\* the interval fires: runScalingLoop
TimerTick ==
    /\ Running
    /\ scalingInterval = "set"
    /\ FreeSlot("timer")
    /\ IF isShuttingDown
       THEN UNCHANGED cycle
       ELSE StartCycle("timer", "timer")
    /\ UNCHANGED <<sampleOrder, env, boot, config, messages, manualInstanceCount, started,
                   scalingInterval, isShuttingDown, exited>>

\* POST /scale arrives
PostScale ==
    /\ Running
    /\ FreeSlot("http")
    /\ StartCycle("http", "http")
    /\ UNCHANGED <<sampleOrder, env, boot, config, messages, manualInstanceCount, started,
                   scalingInterval, isShuttingDown, exited>>

\* process.on("SIGTERM")
Sigterm ==
    /\ Running
    /\ IF isShuttingDown
       THEN UNCHANGED <<isShuttingDown, scalingInterval>>
       ELSE /\ isShuttingDown' = TRUE
            /\ scalingInterval' = "null"
    /\ UNCHANGED <<sampleOrder, env, boot, config, messages, manualInstanceCount, started, exited, cycle>>

\* the 5000 ms timer of the SIGTERM handler fires: process.exit(0)
GraceElapsed ==
    /\ Running
    /\ isShuttingDown
    /\ exited' = TRUE
    /\ UNCHANGED <<sampleOrder, env, boot, config, messages, manualInstanceCount, started,
                   scalingInterval, isShuttingDown, cycle>>

-----------------------------------------------------------------------------
(* scaler.ts: the steps of one invocation of scale() *)

\* the invocation holds a sample and may still write a target computed from it
HoldsSample(cyc) == cyc.pc \in {"reading", "updating"}

\* c has just taken a sample: the newest
Sampled(order, c) == SelectSeq(order, LAMBDA t : t # c) \o <<c>>

\* the write of c has been applied: its sample is the one behind the fleet size
Wrote(order, c) ==
    LET rest == SelectSeq(order, LAMBDA t : t # "applied")
    IN [i \in DOMAIN rest |-> IF rest[i] = c THEN "applied" ELSE rest[i]]

\* only the order relative to a sample still held matters: the samples of
\* settled invocations are dropped, and so is an applied write older than
\* every sample held
Relevant(order, cycles) ==
    LET kept == SelectSeq(order, LAMBDA t : t = "applied" \/ HoldsSample(cycles[t]))
    IN IF kept # <<>> /\ Head(kept) = "applied" THEN Tail(kept) ELSE kept

SampleOrderStep(order) == sampleOrder' = Relevant(order, cycle')

CycleFrame == <<env, boot, config, started, scalingInterval, isShuttingDown, exited>>

\* data.messages ?? 0
Depth(field) == IF field = Unset THEN 0 ELSE field

\* getQueueDepth resolves; the target is computed; getInstanceCount is called
QueueDepthOk(c) ==
    /\ ~exited
    /\ cycle[c].pc = "sampling"
    /\ LET depth == Depth(messages)
       IN cycle' = [cycle EXCEPT ![c] =
              [@ EXCEPT !.pc = "reading",
                        !.queueDepth = depth,
                        !.targetInstances = TargetInstances(depth, config),
                        !.calls = @ \o <<"getInstanceCount">>,
                        !.events = @ \o <<Log("debug", "Queue depth retrieved"),
                                          Log("debug", "Calculated target instances")>>]]
    /\ SampleOrderStep(Sampled(sampleOrder, c))
    /\ UNCHANGED <<CycleFrame, messages, manualInstanceCount>>

\* the failure swallowed: scale() goes on with a default depth of 0
QueueDepthFailDefault(c) ==
    /\ ~exited
    /\ cycle[c].pc = "sampling"
    /\ cycle' = [cycle EXCEPT ![c] =
           [@ EXCEPT !.pc = "reading",
                     !.failed = "sample",
                     !.queueDepth = 0,
                     !.targetInstances = TargetInstances(0, config),
                     !.events = @ \o <<Log("error", "Failed to get queue depth")>>]]
    /\ SampleOrderStep(Sampled(sampleOrder, c))
    /\ UNCHANGED <<CycleFrame, messages, manualInstanceCount>>

\* the failure also stops the timer loop (an uncaught rejection, or a catch
\* that clears the interval)
QueueDepthFailStopsLoop(c) ==
    /\ ~exited
    /\ cycle[c].pc = "sampling"
    /\ cycle' = [cycle EXCEPT ![c] =
           Threw(@, c, "sample", <<Log("error", "Failed to get queue depth")>>)]
    /\ scalingInterval' = "null"
    /\ SampleOrderStep(sampleOrder)
    /\ UNCHANGED <<env, boot, config, started, isShuttingDown, exited, messages,
                   manualInstanceCount>>

\* getQueueDepth rejects: non-2xx status, or network error / 10 s abort
QueueDepthFail(c) ==
    /\ ~exited
    /\ cycle[c].pc = "sampling"
    /\ \E kind \in {"rejected", "unavailable"} :
         LET evs == (IF kind = "rejected"
                     THEN <<Log("error", "RabbitMQ Management API returned error")>>
                     ELSE <<>>)
                    \o <<Log("error", "Failed to get queue depth")>>
         IN cycle' = [cycle EXCEPT ![c] = Threw(@, c, "sample", evs)]
    /\ SampleOrderStep(sampleOrder)
    /\ UNCHANGED <<CycleFrame, messages, manualInstanceCount>>

\* service.scaling?.manualInstanceCount ?? 0
Count(field) == IF field = Unset THEN 0 ELSE field

\* what scale() does once currentInstances is known (step 4 and the return)
AfterRead(cyc, trigger, count) ==
    LET cur == [cyc EXCEPT !.currentInstances = count,
                           !.events = @ \o <<Log("debug", "Getting instance count"),
                                             Log("debug", "Instance count retrieved")>>]
        branch == Reconcile(cyc.targetInstances, count, config.dryRun)
        dif == [cur EXCEPT !.reason = Reason(cyc.targetInstances, count)]
    IN CASE branch = "noop" ->
              Returned(cur, trigger, <<Log("debug", "No scaling needed")>>)
         [] branch = "dry_run" ->
              Returned(dif, trigger, <<Log("info", "[DRY RUN] Would scale processor")>>)
         [] branch = "update" ->
              [dif EXCEPT !.pc = "updating",
                          !.updateCalls = @ + 1,
                          !.calls = @ \o <<"updateInstanceCount">>,
                          !.events = @ \o <<Log("info", "Updating instance count")>>]

\* getInstanceCount resolves
InstanceCountOk(c) ==
    /\ ~exited
    /\ cycle[c].pc = "reading"
    /\ LET count == Count(manualInstanceCount)
       IN cycle' = [cycle EXCEPT ![c] = AfterRead(@, c, count)]
    /\ SampleOrderStep(sampleOrder)
    /\ UNCHANGED <<CycleFrame, messages, manualInstanceCount>>

\* getInstanceCount rejects: auth.getClient() or the GET fails
InstanceCountFail(c) ==
    /\ ~exited
    /\ cycle[c].pc = "reading"
    /\ \E stage \in {"auth", "request"} :
         LET evs == (IF stage = "request"
                     THEN <<Log("debug", "Getting instance count")>>
                     ELSE <<>>)
                    \o <<Log("error", "Failed to get instance count")>>
         IN cycle' = [cycle EXCEPT ![c] = Threw(@, c, "getCurrent", evs)]
    /\ SampleOrderStep(sampleOrder)
    /\ UNCHANGED <<CycleFrame, messages, manualInstanceCount>>

\* the PATCH adds the count to the fleet size instead of setting it
UpdateOkAdditive(c) ==
    /\ ~exited
    /\ cycle[c].pc = "updating"
    /\ manualInstanceCount' = Count(manualInstanceCount) + cycle[c].targetInstances
    /\ cycle' = [cycle EXCEPT ![c] =
           Returned(@, c, <<Log("info", "Instance count updated successfully"),
                         Log("info", "Scaled processor")>>)]
    /\ SampleOrderStep(Wrote(sampleOrder, c))
    /\ UNCHANGED <<CycleFrame, messages>>

\* the PATCH of updateInstanceCount resolves
UpdateOk(c) ==
    /\ ~exited
    /\ cycle[c].pc = "updating"
    /\ manualInstanceCount' = cycle[c].targetInstances
    /\ cycle' = [cycle EXCEPT ![c] =
           Returned(@, c, <<Log("info", "Instance count updated successfully"),
                         Log("info", "Scaled processor")>>)]
    /\ SampleOrderStep(Wrote(sampleOrder, c))
    /\ UNCHANGED <<CycleFrame, messages>>

\* the PATCH reissued after a failure
UpdateFailRetry(c) ==
    /\ ~exited
    /\ cycle[c].pc = "updating"
    /\ cycle' = [cycle EXCEPT ![c] =
           [@ EXCEPT !.updateCalls = @ + 1,
                     !.failed = "setTarget",
                     !.events = @ \o <<Log("error", "Failed to update instance count"),
                                       Log("info", "Updating instance count")>>]]
    /\ SampleOrderStep(sampleOrder)
    /\ UNCHANGED <<CycleFrame, messages, manualInstanceCount>>

\* the failure of the PATCH swallowed: scale() goes on as if it had scaled
UpdateFailSwallowed(c) ==
    /\ ~exited
    /\ cycle[c].pc = "updating"
    /\ cycle' = [cycle EXCEPT ![c] =
           [Returned(@, c, <<Log("error", "Failed to update instance count"),
                             Log("info", "Scaled processor")>>)
               EXCEPT !.failed = "setTarget"]]
    /\ SampleOrderStep(sampleOrder)
    /\ UNCHANGED <<CycleFrame, messages, manualInstanceCount>>

\* the PATCH rejects; the remote may or may not have applied it
UpdateFail(c) ==
    /\ ~exited
    /\ cycle[c].pc = "updating"
    /\ cycle' = [cycle EXCEPT ![c] =
           Threw(@, c, "setTarget", <<Log("error", "Failed to update instance count")>>)]
    /\ \E applied \in BOOLEAN :
         IF applied
         THEN /\ manualInstanceCount' = cycle[c].targetInstances
              /\ SampleOrderStep(Wrote(sampleOrder, c))
         ELSE /\ UNCHANGED manualInstanceCount
              /\ SampleOrderStep(sampleOrder)
    /\ UNCHANGED <<CycleFrame, messages>>

-----------------------------------------------------------------------------
(* Environment: producers and consumers change the queue *)

QueueChange ==
    /\ ~exited
    /\ messages' \in ({Unset} \cup (0..MaxDepth)) \ {messages}
    /\ UNCHANGED <<sampleOrder, env, boot, config, manualInstanceCount, started, scalingInterval,
                   isShuttingDown, exited, cycle>>

-----------------------------------------------------------------------------

Next ==
    \/ Startup
    \/ Sigterm
    \/ GraceElapsed
    \/ QueueChange
    \/ TimerTick
    \/ PostScale
    \/ \E c \in Slots :
         \/ QueueDepthOk(c)
         \/ QueueDepthFail(c)
         \/ InstanceCountOk(c)
         \/ InstanceCountFail(c)
         \/ UpdateOk(c)
         \/ UpdateFail(c)

Spec == Init /\ [][Next]_vars

\* What the runtime guarantees to happen: the interval set by setInterval
\* fires, the 5000 ms timer of the SIGTERM handler fires, and getQueueDepth
\* settles (its fetch is aborted after 10000 ms).  The Cloud Run calls carry
\* no timeout and the arrival of requests and signals is up to the
\* environment, so nothing is assumed of them.
FairSpec ==
    /\ Spec
    /\ WF_vars(TimerTick)
    /\ WF_vars(GraceElapsed)
    /\ \A c \in Slots : WF_vars(QueueDepthOk(c) \/ QueueDepthFail(c))

-----------------------------------------------------------------------------
(* The scaling policy over a wide range of configurations and depths: the  *)
(* timer loop alone, one cycle after the other, every external call        *)
(* succeeding and the queue depth constant.                                *)

PolicyInit ==
    InitWith(ValidConfigs(PolicyMaxPerInstance, PolicyMaxInst),
             {Unset} \cup (0..PolicyMaxDepth),
             {Unset} \cup (0..PolicyMaxInst))

PolicyNext ==
    \/ Startup
    \/ TimerTick
    \/ QueueDepthOk("timer")
    \/ InstanceCountOk("timer")
    \/ UpdateOk("timer")

PolicySpec == PolicyInit /\ [][PolicyNext]_vars

-----------------------------------------------------------------------------
(* The steady case: the queue depth stays as it is, every external call    *)
(* succeeds and only the scaler changes the fleet; cycles of the timer and *)
(* of POST /scale interleave.                                              *)

\* DRY_RUN is not "true"
SteadyInit ==
    /\ InitWith(ValidConfigs(PolicyMaxPerInstance, MaxInst),
                {Unset} \cup (0..PolicyMaxDepth),
                {Unset} \cup (0..MaxInst))
    /\ ~config.dryRun

SteadyNext ==
    \/ Startup
    \/ TimerTick
    \/ PostScale
    \/ \E c \in Slots :
         \/ QueueDepthOk(c)
         \/ InstanceCountOk(c)
         \/ UpdateOk(c)

\* the module body runs to its end, the interval fires, and every call made
\* returns
SteadySpec ==
    /\ SteadyInit
    /\ [][SteadyNext]_vars
    /\ WF_vars(Startup)
    /\ WF_vars(TimerTick)
    /\ \A c \in Slots :
          /\ WF_vars(QueueDepthOk(c))
          /\ WF_vars(InstanceCountOk(c))
          /\ WF_vars(UpdateOk(c))

-----------------------------------------------------------------------------
(* Startup over a range of environments: loadConfig runs on what the       *)
(* environment holds, and the scaling loop starts if it returns.           *)

NumberTexts ==
    {<<"0">>, <<"1">>, <<"2">>, <<"-", "1">>, <<"3", ".", "7">>,
     <<"a", "b", "c">>, <<>>}

PollingTexts ==
    {<<"5", "0", "0">>, <<"1", "0", "0", "0">>, <<"6", "0", "0", "0", "1">>,
     <<"2", "s">>}

EnvSpace ==
    [RABBITMQ_URL : {Absent, Text(<<>>), Text(<<"a">>)},
     PROJECT_ID : {Absent, Text(<<>>), Text(<<"p">>)},
     REGION : {Absent, Text(<<"r">>)},
     TARGET_PER_INSTANCE : {Absent} \cup {Text(t) : t \in NumberTexts},
     MIN_INSTANCES : {Absent} \cup {Text(t) : t \in NumberTexts},
     MAX_INSTANCES : {Absent} \cup {Text(t) : t \in NumberTexts},
     DRY_RUN : {Absent, Text(<<"t", "r", "u", "e">>), Text(<<"1">>)},
     POLLING_INTERVAL_MS : {Absent} \cup {Text(t) : t \in PollingTexts}]

ConfigInit ==
    /\ env \in EnvSpace
    /\ boot = "pending"
    /\ config = NoConfig
    /\ messages = 0
    /\ manualInstanceCount = 0
    /\ started = FALSE
    /\ scalingInterval = "null"
    /\ isShuttingDown = FALSE
    /\ exited = FALSE
    /\ cycle = [c \in Slots |-> IdleCycle]
    /\ sampleOrder = <<>>

\* index.ts line 8: const config = loadConfig(); a throw ends the process
LoadConfigStep ==
    /\ boot = "pending"
    /\ LET loaded == LoadConfig(env)
       IN IF loaded.threw
          THEN boot' = "threw" /\ UNCHANGED config
          ELSE boot' = "ok" /\ config' = loaded.config
    /\ UNCHANGED <<sampleOrder, env, messages, manualInstanceCount, started,
                   scalingInterval, isShuttingDown, exited, cycle>>

ConfigNext ==
    \/ LoadConfigStep
    \/ Startup

ConfigSpec == ConfigInit /\ [][ConfigNext]_vars

-----------------------------------------------------------------------------
(* Properties *)

HasEvent(c, level, msg) ==
    \E i \in DOMAIN cycle[c].events : cycle[c].events[i] = Log(level, msg)

Decided(c) == cycle[c].targetInstances # Unset

\* C1: at most one invocation of scale() is in flight at any time.
OverlapExclusion ==
    Cardinality({c \in Slots : InFlight(c)}) <= 1

\* C2: a cycle whose queue-depth read or fleet-size read failed ends with
\* scale() throwing and without any call of updateInstanceCount; after a
\* failed queue-depth read the cycle holds no depth and no target.
FailedReadAbortsCycle ==
    \A c \in Slots :
        /\ cycle[c].failed \in {"sample", "getCurrent"} =>
              /\ cycle[c].pc = "done"
              /\ cycle[c].result = "threw"
              /\ cycle[c].updateCalls = 0
              /\ ~HasEvent(c, "info", "Updating instance count")
        /\ cycle[c].failed = "sample" =>
              /\ cycle[c].queueDepth = Unset
              /\ cycle[c].targetInstances = Unset
              /\ cycle[c].currentInstances = Unset

FailedReadWitness ==
    /\ cycle["timer"].failed = "sample"
    /\ cycle["http"].failed = "getCurrent"
    /\ cycle["http"].targetInstances # Count(manualInstanceCount)
    /\ ~config.dryRun

\* C3: one invocation of scale() calls updateInstanceCount at most once.
AtMostOneUpdatePerCycle ==
    \A c \in Slots : cycle[c].updateCalls <= 1

AtMostOneUpdateWitness ==
    \E c \in Slots :
        /\ cycle[c].pc = "done"
        /\ cycle[c].failed = "setTarget"
        /\ cycle[c].updateCalls = 1

\* C4: with dryRun set no cycle calls updateInstanceCount; a finished cycle
\* whose target differs from the current size has logged the intended change
\* and no scaling.
DryRunNeverUpdates ==
    config.dryRun =>
        \A c \in Slots :
            /\ cycle[c].updateCalls = 0
            /\ cycle[c].pc # "updating"
            /\ ( /\ cycle[c].result = "returned"
                 /\ cycle[c].targetInstances # cycle[c].currentInstances )
               => /\ HasEvent(c, "info", "[DRY RUN] Would scale processor")
                  /\ ~HasEvent(c, "info", "Scaled processor")

DryRunWitness ==
    /\ config.dryRun
    /\ \E c \in Slots :
        /\ cycle[c].result = "returned"
        /\ cycle[c].targetInstances > cycle[c].currentInstances

\* C5: a cycle whose target equals the current size it read makes no call of
\* updateInstanceCount and reports "No scaling needed" at debug level, and no
\* info-level scaling event.
NoOpWhenTargetEqualsCurrent ==
    \A c \in Slots :
        (Decided(c) /\ cycle[c].targetInstances = cycle[c].currentInstances) =>
            /\ cycle[c].pc = "done"
            /\ cycle[c].result = "returned"
            /\ cycle[c].updateCalls = 0
            /\ HasEvent(c, "debug", "No scaling needed")
            /\ \A i \in DOMAIN cycle[c].events :
                   cycle[c].events[i].msg \notin
                       {"Updating instance count", "Scaled processor",
                        "Instance count updated successfully",
                        "[DRY RUN] Would scale processor"}
            /\ \A l \in {"info", "warn", "error"} : ~HasEvent(c, l, "No scaling needed")

NoOpWitness ==
    /\ ~config.dryRun
    /\ \E c \in Slots :
        /\ cycle[c].result = "returned"
        /\ cycle[c].targetInstances = cycle[c].currentInstances
        /\ cycle[c].targetInstances > 0

\* C6: the target a cycle computes lies between minInstances and maxInstances.
TargetWithinBounds ==
    \A c \in Slots :
        Decided(c) =>
            /\ config.minInstances <= cycle[c].targetInstances
            /\ cycle[c].targetInstances <= config.maxInstances

\* a cycle whose unclamped quotient lies above maxInstances, under a
\* configuration with a positive floor
TargetClampedWitness ==
    /\ Decided("timer")
    /\ cycle["timer"].queueDepth >
           config.maxInstances * config.targetPerInstance
    /\ config.minInstances > 0
    /\ config.targetPerInstance > 1

\* q is the ceiling of d / t
IsCeiling(q, d, t) == q * t >= d /\ (q - 1) * t < d

Clamp(x, lo, hi) == IF x < lo THEN lo ELSE IF x > hi THEN hi ELSE x

\* README "Scaling Logic" examples and the spec's scenarios
\* (targetPerInstance = 3, min = 0, max = 5)
ExampleTarget(d) ==
    CASE d = 0 -> 0
      [] d \in 1..3 -> 1
      [] d \in 4..6 -> 2
      [] d \in 7..9 -> 3
      [] d = 20 -> 5

\* C7: the target equals clamp(ceil(depth / targetPerInstance), min, max):
\* depth 0 gives max(0, minInstances), an exact multiple does not round up,
\* a remainder rounds up by one, and the documented examples hold.
TargetIsClampedCeiling ==
    \A c \in Slots :
        Decided(c) =>
            LET d == cycle[c].queueDepth
                t == config.targetPerInstance
                lo == config.minInstances
                hi == config.maxInstances
                target == cycle[c].targetInstances
            IN /\ \E q \in 0..d : /\ IsCeiling(q, d, t)
                                  /\ target = Clamp(q, lo, hi)
               /\ d = 0 => target = lo
               /\ (d % t = 0) => target = Clamp(d \div t, lo, hi)
               /\ (d % t # 0) => target = Clamp((d \div t) + 1, lo, hi)
               /\ ( /\ t = 3 /\ lo = 0 /\ hi = 5
                    /\ d \in (0..9) \cup {20} ) => target = ExampleTarget(d)

TargetExampleWitness ==
    /\ config.targetPerInstance = 3
    /\ config.minInstances = 0
    /\ config.maxInstances = 5
    /\ cycle["timer"].queueDepth = 20
    /\ cycle["timer"].targetInstances = 5

\* C8: for the configuration in force the target is non-decreasing in the
\* queue depth: no larger depth gives less than a cycle's target, no smaller
\* depth gives more.
TargetMonotonic ==
    \A c \in Slots :
        Decided(c) =>
            \A d2 \in 0..PolicyMaxDepth :
                /\ d2 >= cycle[c].queueDepth =>
                       TargetInstances(d2, config) >= cycle[c].targetInstances
                /\ d2 <= cycle[c].queueDepth =>
                       TargetInstances(d2, config) <= cycle[c].targetInstances

TargetMonotonicWitness ==
    /\ Decided("timer")
    /\ config.targetPerInstance > 1
    /\ \E d1, d2 \in 0..PolicyMaxDepth :
        /\ d1 < cycle["timer"].queueDepth
        /\ cycle["timer"].queueDepth < d2
        /\ TargetInstances(d1, config) < cycle["timer"].targetInstances
        /\ cycle["timer"].targetInstances < TargetInstances(d2, config)

\* C9: once isShuttingDown is set, no step begins a call of scale().
NoCycleStartsAfterShutdown ==
    [][isShuttingDown =>
         \A c \in Slots : cycle'[c].pc = "sampling" => cycle[c].pc = "sampling"]_vars

\* C10: when the process exits after the signal, no cycle is cut off in
\* flight: every cycle that had started has settled.
InFlightCycleCompletesBeforeExit ==
    exited => \A c \in Slots : ~InFlight(c)

\* C11: a failed cycle does not block or corrupt later cycles: once a cycle
\* has failed and the timer's slot is free, a timer cycle is started again
\* unless shutdown begins; every cycle starts from fresh locals, and its
\* target is a function of the depth it read and the configuration alone.
FailedCycleDoesNotBlock ==
    /\ \A c \in Slots :
         (cycle[c].result = "threw" /\ ~InFlight("timer"))
            ~> (cycle["timer"].pc = "sampling" \/ isShuttingDown)
    /\ [][\A c \in Slots :
            (cycle[c].pc # "sampling" /\ cycle'[c].pc = "sampling") =>
                /\ cycle'[c].queueDepth = Unset
                /\ cycle'[c].targetInstances = Unset
                /\ cycle'[c].currentInstances = Unset
                /\ cycle'[c].updateCalls = 0
                /\ cycle'[c].failed = "none"
                /\ cycle'[c].result = "none"]_vars
    /\ [](\A c \in Slots :
            Decided(c) =>
                cycle[c].targetInstances =
                    TargetInstances(cycle[c].queueDepth, config))

\* the timer's cycle has failed in its PATCH, the interval is still set and
\* no shutdown has begun
FailedCycleWitness ==
    /\ cycle["timer"].result = "threw"
    /\ cycle["timer"].failed = "setTarget"
    /\ scalingInterval = "set"
    /\ ~isShuttingDown
    /\ ~exited

\* the events that report how a cycle ended
SuccessMsgs ==
    {"No scaling needed", "[DRY RUN] Would scale processor", "Scaled processor"}

SuccessEvents(c) ==
    {i \in DOMAIN cycle[c].events : cycle[c].events[i].msg \in SuccessMsgs}

ErrorEvents(c) ==
    {i \in DOMAIN cycle[c].events : cycle[c].events[i].level = "error"}

\* C12 as stated: a settled cycle has emitted exactly one outcome event
\* (no-op, intended-change, scaled or error), counting the events of scale(),
\* its adapters and its caller.
ExactlyOneOutcomeEvent ==
    \A c \in Slots :
        cycle[c].pc = "done" =>
            Cardinality(SuccessEvents(c) \cup ErrorEvents(c)) = 1

\* C12 as amended: a cycle that returns has logged exactly one of no-op,
\* intended-change, scaled and no error; a cycle that throws has logged none
\* of these and two or three error events, the last being the caller's
\* "Scaling failed"; a cycle in flight has logged neither.
OutcomeEventsPerCycle ==
    \A c \in Slots :
        /\ cycle[c].result = "returned" =>
              /\ Cardinality(SuccessEvents(c)) = 1
              /\ ErrorEvents(c) = {}
        /\ cycle[c].result = "threw" =>
              /\ SuccessEvents(c) = {}
              /\ Cardinality(ErrorEvents(c)) \in {2, 3}
              /\ cycle[c].events[Len(cycle[c].events)] = Log("error", "Scaling failed")
        /\ InFlight(c) =>
              /\ SuccessEvents(c) = {}
              /\ ErrorEvents(c) = {}

\* a rejected queue-depth request: three error events in one cycle
OutcomeEventsWitness ==
    \E c \in Slots :
        /\ cycle[c].failed = "sample"
        /\ Cardinality(ErrorEvents(c)) = 3

\* C13: the POST /scale handler answers 500 with success = false exactly when
\* its cycle failed, and 200 with success = true and the cycle's queueDepth,
\* currentInstances, targetInstances and scaled when the cycle returned; it
\* answers nothing before the cycle settles.
HttpResponseMatchesOutcome ==
    LET cyc == cycle["http"]
        rsp == cyc.response
    IN /\ cyc.result = "threw" <=> (rsp.status = 500 /\ ~rsp.success)
       /\ cyc.result = "threw" <=> (rsp.error = "message")
       /\ cyc.result = "threw" <=> (rsp.status \notin {0, 200})
       /\ cyc.result = "returned" <=> (rsp.status = 200 /\ rsp.success)
       /\ cyc.result = "returned" =>
             /\ rsp.queueDepth = cyc.queueDepth
             /\ rsp.currentInstances = cyc.currentInstances
             /\ rsp.targetInstances = cyc.targetInstances
             /\ rsp.scaled = cyc.scaled
             /\ rsp.queueDepth # Unset
             /\ rsp.currentInstances # Unset
             /\ rsp.targetInstances # Unset
       /\ cyc.pc # "done" => rsp = NoResponse

\* one request was answered 500 after its PATCH failed
HttpFailureWitness ==
    /\ cycle["http"].failed = "setTarget"
    /\ cycle["http"].response.status = 500
    /\ ~cycle["http"].response.success

\* the external call behind each step of a cycle
CallOf(step) ==
    CASE step = "sample" -> "getQueueDepth"
      [] step = "getCurrent" -> "getInstanceCount"
      [] step = "setTarget" -> "updateInstanceCount"

\* C14: a cycle whose updateInstanceCount failed has logged the error, ended
\* with scale() throwing, logged no "Scaled processor" and called
\* updateInstanceCount once; no cycle issues any external call twice, and a
\* failed call is the last call of its cycle.
UpdateFailureSurfaces ==
    \A c \in Slots :
        /\ cycle[c].failed = "setTarget" =>
              /\ cycle[c].pc = "done"
              /\ cycle[c].result = "threw"
              /\ HasEvent(c, "error", "Failed to update instance count")
              /\ HasEvent(c, "error", "Scaling failed")
              /\ ~HasEvent(c, "info", "Scaled processor")
              /\ cycle[c].updateCalls = 1
        /\ \A i, j \in DOMAIN cycle[c].calls :
              i # j => cycle[c].calls[i] # cycle[c].calls[j]
        /\ cycle[c].failed # "none" =>
              /\ cycle[c].pc = "done"
              /\ cycle[c].calls[Len(cycle[c].calls)] = CallOf(cycle[c].failed)

\* a PATCH failed without taking effect at the remote
UpdateFailureWitness ==
    \E c \in Slots :
        /\ cycle[c].failed = "setTarget"
        /\ Count(manualInstanceCount) = cycle[c].currentInstances
        /\ cycle[c].targetInstances > cycle[c].currentInstances

\* C15: every cycle that starts eventually settles (or the process exits),
\* whatever the upstreams do.
CycleTerminates ==
    \A c \in Slots : InFlight(c) ~> (~InFlight(c) \/ exited)

\* the direction of a decision: up, down or none
Direction(targetInstances, currentInstances) ==
    IF targetInstances > currentInstances THEN "scale_up"
    ELSE IF targetInstances < currentInstances THEN "scale_down"
    ELSE "none"

\* C16: the decision a cycle returns is a function of the values it read and
\* of the configuration without dryRun (the same with dryRun flipped): target,
\* scaled flag and direction do not depend on dryRun; dryRun decides only
\* whether updateInstanceCount is called and which event is logged.
DryRunSameDecision ==
    \A c \in Slots :
        cycle[c].result = "returned" =>
            LET flipped == [config EXCEPT !.dryRun = ~@]
                target == TargetInstances(cycle[c].queueDepth, flipped)
                cur == cycle[c].currentInstances
            IN /\ cycle[c].targetInstances = target
               /\ cycle[c].scaled = (target # cur)
               /\ cycle[c].reason = Direction(target, cur)
               /\ cycle[c].updateCalls = IF config.dryRun \/ target = cur THEN 0 ELSE 1
               /\ target # cur =>
                     /\ HasEvent(c, "info", "[DRY RUN] Would scale processor")
                            <=> config.dryRun
                     /\ HasEvent(c, "info", "Scaled processor") <=> ~config.dryRun

\* a dry-run cycle returned a scale-down decision without any update
DryRunDecisionWitness ==
    /\ config.dryRun
    /\ \E c \in Slots :
        /\ cycle[c].result = "returned"
        /\ cycle[c].scaled
        /\ cycle[c].reason = "scale_down"
        /\ cycle[c].updateCalls = 0

\* C17: every configuration loadConfig returns has integer fields with
\* targetPerInstance >= 1, minInstances >= 0, maxInstances >= minInstances and
\* 1000 <= pollingIntervalMs <= 60000; for any other input, or a missing
\* RABBITMQ_URL, PROJECT_ID or REGION, loadConfig throws and no cycle starts.
LoadedConfigIsValid ==
    /\ boot = "ok" =>
          /\ \A f \in {"targetPerInstance", "minInstances", "maxInstances",
                       "pollingIntervalMs"} : config[f] \in Int \ {NaN}
          /\ config.targetPerInstance >= 1
          /\ config.minInstances >= 0
          /\ config.maxInstances >= config.minInstances
          /\ config.pollingIntervalMs >= 1000
          /\ config.pollingIntervalMs <= 60000
          /\ ~Missing(env.RABBITMQ_URL)
          /\ ~Missing(env.PROJECT_ID)
          /\ ~Missing(env.REGION)
    /\ boot = "threw" =>
          /\ ~started
          /\ \A c \in Slots : cycle[c].pc = "idle"

\* C18: when the queue-depth response lacks the `messages` field, the cycle
\* goes on with depth 0 and has logged a warning.
MissingFieldWarns ==
    [][\A c \in Slots :
         ( /\ messages = Unset
           /\ cycle[c].pc = "sampling"
           /\ cycle'[c].pc # "sampling"
           /\ cycle'[c].failed = "none" )
         => /\ cycle'[c].pc = "reading"
            /\ cycle'[c].queueDepth = 0
            /\ \E i \in DOMAIN cycle'[c].events :
                   cycle'[c].events[i].level = "warn"]_vars

\* C19: in every result returned, scaled is true exactly when the target
\* differs from the current size, and the direction is up exactly when the
\* target is larger, down exactly when it is smaller, none when they are
\* equal; with targetPerInstance = 3, min = 0, max = 5: depth 0, current 3 is
\* a change down to 0; depth 8, current 0 a change up to 3; depth 7,
\* current 3 no change.
ChangedFlagAndDirection ==
    \A c \in Slots :
        cycle[c].result = "returned" =>
            LET target == cycle[c].targetInstances
                cur == cycle[c].currentInstances
                d == cycle[c].queueDepth
            IN /\ cycle[c].scaled <=> target # cur
               /\ cycle[c].reason = "scale_up" <=> target > cur
               /\ cycle[c].reason = "scale_down" <=> target < cur
               /\ cycle[c].reason = "none" <=> target = cur
               /\ ( /\ config.targetPerInstance = 3
                    /\ config.minInstances = 0
                    /\ config.maxInstances = 5 ) =>
                     /\ (d = 0 /\ cur = 3) =>
                           /\ target = 0 /\ cycle[c].scaled
                           /\ cycle[c].reason = "scale_down"
                     /\ (d = 8 /\ cur = 0) =>
                           /\ target = 3 /\ cycle[c].scaled
                           /\ cycle[c].reason = "scale_up"
                     /\ (d = 7 /\ cur = 3) =>
                           /\ target = 3 /\ ~cycle[c].scaled
                           /\ cycle[c].reason = "none"

\* the scenario depth 8, current 0: three instances, up
ChangedFlagWitness ==
    /\ config.targetPerInstance = 3
    /\ config.minInstances = 0
    /\ config.maxInstances = 5
    /\ ~config.dryRun
    /\ cycle["timer"].result = "returned"
    /\ cycle["timer"].queueDepth = 8
    /\ cycle["timer"].currentInstances = 0
    /\ cycle["timer"].reason = "scale_up"
    /\ manualInstanceCount = 3

\* the order in which scale() issues its external calls
CallOrder == <<"getQueueDepth", "getInstanceCount", "updateInstanceCount">>

\* C20: within a cycle the external calls are issued in the order
\* getQueueDepth, getInstanceCount, updateInstanceCount, each only after the
\* one before has returned its value, and one at a time.
StepsAreSequential ==
    \A c \in Slots :
        LET calls == cycle[c].calls
        IN /\ Len(calls) <= Len(CallOrder)
           /\ \A i \in DOMAIN calls : calls[i] = CallOrder[i]
           /\ Len(calls) >= 2 =>
                 /\ cycle[c].queueDepth # Unset
                 /\ cycle[c].targetInstances # Unset
           /\ Len(calls) >= 3 => cycle[c].currentInstances # Unset
           /\ cycle[c].queueDepth = Unset => cycle[c].currentInstances = Unset
           /\ cycle[c].pc = "sampling" => Len(calls) = 1
           /\ cycle[c].pc = "reading" => Len(calls) = 2
           /\ cycle[c].pc = "updating" => Len(calls) = 3

\* a cycle went through all three calls and returned
StepsAreSequentialWitness ==
    \E c \in Slots :
        /\ cycle[c].calls = CallOrder
        /\ cycle[c].result = "returned"

Overtaken(c) ==
    \E i, j \in DOMAIN sampleOrder :
        /\ i < j
        /\ sampleOrder[i] = c
        /\ sampleOrder[j] = "applied"

\* C22: no write that goes through replaces the fleet size left by the
\* successful write of another cycle that was computed from a newer
\* queue-depth sample.
NoStaleOverwrite ==
    [][\A c \in Slots :
         ( /\ cycle[c].pc = "updating"
           /\ cycle'[c].result = "returned"
           /\ manualInstanceCount' = cycle[c].targetInstances
           /\ manualInstanceCount' # manualInstanceCount
           /\ \E o \in Slots \ {c} :
                  /\ cycle[o].result = "returned"
                  /\ cycle[o].updateCalls = 1
                  /\ cycle[o].targetInstances = manualInstanceCount )
         => ~Overtaken(c)]_vars

\* the fleet size, as getInstanceCount reports it (an absent count is 0), is
\* clamp(ceil(depth / targetPerInstance), min, max)
FleetAtTarget ==
    \E q \in 0..Depth(messages) :
        /\ IsCeiling(q, Depth(messages), config.targetPerInstance)
        /\ Count(manualInstanceCount)
               = Clamp(q, config.minInstances, config.maxInstances)

AnyCycleCompleted == \E c \in Slots : cycle[c].result = "returned"

\* C23: with a constant queue depth, every call succeeding, dryRun false and
\* no one else changing the fleet: once a cycle has completed, the fleet size
\* is and stays clamp(ceil(depth / targetPerInstance), min, max); from then
\* on no updateInstanceCount call is issued and every cycle that reads the
\* fleet size ends as a no-op; and a cycle does complete.
ConvergesAndStays ==
    /\ [](AnyCycleCompleted => []FleetAtTarget)
    /\ [][FleetAtTarget => FleetAtTarget']_vars
    /\ [][\A c \in Slots :
            FleetAtTarget =>
                /\ cycle[c].pc # "updating" => cycle'[c].pc # "updating"
                /\ ( cycle[c].pc = "reading" /\ cycle'[c].pc # "reading" ) =>
                      /\ cycle'[c].result = "returned"
                      /\ cycle'[c].updateCalls = 0
                      /\ ~cycle'[c].scaled
                      /\ cycle'[c].events[Len(cycle'[c].events) - 1]
                             = Log("debug", "No scaling needed")]_vars
    /\ <>[]( /\ FleetAtTarget
             /\ \A c \in Slots : cycle[c].pc # "updating" )

\* the timer's cycle wrote the target, the cycle of a request that read the
\* fleet size afterwards was a no-op
ConvergesWitness ==
    /\ ~config.dryRun
    /\ FleetAtTarget
    /\ cycle["timer"].result = "returned"
    /\ cycle["timer"].updateCalls = 1
    /\ cycle["http"].result = "returned"
    /\ cycle["http"].updateCalls = 0
    /\ cycle["http"].currentInstances = manualInstanceCount
    /\ cycle["timer"].currentInstances # manualInstanceCount

====
